---- MODULE Spec2Model ----
(***************************************************************************)
(* A model of src/lectra_automation.py (class LectraTestAutomation).       *)
(*                                                                         *)
(* Four specifications share the module's variables:                       *)
(*   Spec       run_complete_scenario, the 12-step sequencer;              *)
(*   SpecFind   _find_element_by_selectors, the ordered locator lookup;    *)
(*   SpecClick  _safe_click, the click with retries and script fallback;   *)
(*   SpecMain   main: construction, the 12 step methods, cleanup.          *)
(* A specification leaves the variables of the others at their idle        *)
(* values.  The browser (selenium) is the environment: what a wait, a      *)
(* scroll or a click answers is chosen nondeterministically among the      *)
(* answers the library can give.                                           *)
(***************************************************************************)
EXTENDS Integers, Sequences, FiniteSets, TLC

VARIABLES
    \* run_complete_scenario
    rpc,          \* "idle" | "loop" | "running" | "returned" | "propagated"
    idx,          \* 1-based position in steps of the step being iterated
    results,      \* the dict results: step name -> BOOLEAN
    outcomes,     \* history: how each finished step ended
    trace,        \* history: <<"start", name>> and <<"end", name>> events
    propagating,  \* the exception leaving run_complete_scenario, or "none"
    \* _find_element_by_selectors
    fpc,          \* "idle" | "loop" | "returned" | "raised"
    selectors,    \* the argument selectors
    page,         \* what the wait on each candidate answers
    fi,           \* 1-based position of the candidate the for loop is at
    fresult,      \* the value returned (an element or None)
    waits,        \* history: the waits issued, in order
    fraised,      \* the exception leaving the function, or "none"
    \* _safe_click
    cpc,          \* "idle" | "scroll" | "click" | "js_click" | "backoff"
                  \*   | "returned" | "raised"
    element,      \* the argument element
    attempt,      \* the loop variable attempt (0-based, as range() gives it)
    cresult,      \* the value returned
    events,       \* history: the calls made on the browser and the sleeps
    craised,      \* the exception leaving the function, or "none"
    \* main, the constructor, the step methods and cleanup
    mpc,          \* "idle" | "construct" | "scenario" | "done" | "raised"
    driver,       \* self.driver: "None" or "session"
    windows,      \* driver.window_handles, in order
    active,       \* driver.current_window_handle, "none" when it is closed
    original_window,  \* self.original_window: "None" or a handle
    last,         \* history: what the last step that ran did
    cleanups,     \* history: the number of calls of cleanup
    mexc,         \* the exception leaving main, or "none"
    setup,        \* history: "pending" | "ok" | "failed" | "interrupted"
    interruptedStep   \* history: the step a KeyboardInterrupt hit, or 0

runVars == <<rpc, idx, results, outcomes, trace, propagating>>
findVars == <<fpc, selectors, page, fi, fresult, waits, fraised>>
clickVars == <<cpc, element, attempt, cresult, events, craised>>
mainVars ==
    <<mpc, driver, windows, active, original_window, last, cleanups, mexc,
      setup, interruptedStep>>
vars == <<runVars, findVars, clickVars, mainVars>>

-----------------------------------------------------------------------------
(* Python's exception matching.  KeyboardInterrupt derives from            *)
(* BaseException, not from Exception; every selenium exception and         *)
(* AssertionError derive from Exception.  The selenium classes named here  *)
(* are siblings (none derives from another).                               *)
Catches(cls, exc) ==
    \/ cls = exc
    \/ cls = "Exception" /\ exc # "KeyboardInterrupt"

Put(m, k, v) == [x \in DOMAIN m \cup {k} |-> IF x = k THEN v ELSE m[x]]

-----------------------------------------------------------------------------
(*                        run_complete_scenario                            *)

Steps ==
    << "Open Google", "Handle Google Cookies", "Search for Lectra",
       "Navigate to Lectra Website", "Handle Lectra Cookies",
       "Switch to English", "Navigate Fashion Menu",
       "Click Automotive & Furniture", "Navigate About Us",
       "Navigate to Careers", "Handle Career Cookies",
       "Search Jobs & Click First" >>

NumSteps == Len(Steps)

StepNames == {Steps[i] : i \in 1..NumSteps}

\* What a call step_function() can raise: a wait's timeout, a failed
\* assert_condition, or the user's interruption.
StepExceptions == {"TimeoutException", "AssertionError", "KeyboardInterrupt"}

SequencerCatches_TimeoutOnly(exc) == Catches("TimeoutException", exc)

\* except Exception as e:
SequencerCatches(exc) == Catches("Exception", exc)

ResultsAfterRaise_NoEntry(res, name) == res

\* results[step_name] = False
ResultsAfterRaise(res, name) == Put(res, name, FALSE)

NextStepIndex_StopOnFail(i, passed) == IF passed THEN i + 1 ELSE NumSteps + 1

\* for step_name, step_function in steps: the next iteration, whatever the
\* step's outcome was.
NextStepIndex(i, passed) == i + 1

InitRunIdle ==
    /\ rpc = "idle" /\ idx = 1 /\ results = << >> /\ outcomes = << >>
    /\ trace = << >> /\ propagating = "none"

InitRun ==
    /\ rpc = "loop" /\ idx = 1 /\ results = << >> /\ outcomes = << >>
    /\ trace = << >> /\ propagating = "none"

\* The loop takes the next step and calls step_function().
BeginStep ==
    /\ rpc = "loop" /\ idx <= NumSteps
    /\ rpc' = "running"
    /\ trace' = Append(trace, <<"start", Steps[idx]>>)
    /\ UNCHANGED <<idx, results, outcomes, propagating>>
    /\ UNCHANGED <<findVars, clickVars, mainVars>>

\* step_function() returns; results[step_name] = result.
StepReturns ==
    /\ rpc = "running"
    /\ \E r \in BOOLEAN :
        /\ results' = Put(results, Steps[idx], r)
        /\ outcomes' = Append(outcomes, IF r THEN "passed" ELSE "failed")
        /\ idx' = NextStepIndex(idx, r)
    /\ trace' = Append(trace, <<"end", Steps[idx]>>)
    /\ rpc' = "loop"
    /\ UNCHANGED propagating
    /\ UNCHANGED <<findVars, clickVars, mainVars>>

\* step_function() raises: the except clause records False, or the
\* exception leaves run_complete_scenario.
StepRaises ==
    /\ rpc = "running"
    /\ \E exc \in StepExceptions :
        IF SequencerCatches(exc)
        THEN /\ results' = ResultsAfterRaise(results, Steps[idx])
             /\ outcomes' = Append(outcomes, "raised")
             /\ idx' = NextStepIndex(idx, FALSE)
             /\ trace' = Append(trace, <<"end", Steps[idx]>>)
             /\ rpc' = "loop"
             /\ UNCHANGED propagating
        ELSE /\ rpc' = "propagated"
             /\ propagating' = exc
             /\ UNCHANGED <<idx, results, outcomes, trace>>
    /\ UNCHANGED <<findVars, clickVars, mainVars>>

\* The loop is over: the summary is logged and results returned.
ReturnResults ==
    /\ rpc = "loop" /\ idx > NumSteps
    /\ rpc' = "returned"
    /\ UNCHANGED <<idx, results, outcomes, trace, propagating>>
    /\ UNCHANGED <<findVars, clickVars, mainVars>>

-----------------------------------------------------------------------------
(*                     _find_element_by_selectors                          *)

\* The longest selector list drawn.
MaxSelectors == 3

\* Selector strings, as sequences of characters: one per prefix the code
\* tests, one with no such prefix, and the empty string.
SelectorPool ==
    { <<"#", "a">>, <<".", "a">>, <<"/", "/", "a">>, <<"(", "/", "/", "a", ")">>,
      <<"a">>, << >> }

\* str.startswith(c) for a one-character c
StartsWith(s, c) == Len(s) >= 1 /\ s[1] = c

Dialect_XPathDefault(selector) ==
    IF StartsWith(selector, "#") \/ StartsWith(selector, ".")
    THEN "css selector"
    ELSE "xpath"

\* The By strategy the wait is given for a selector.
Dialect(selector) ==
    IF StartsWith(selector, "#") \/ StartsWith(selector, ".")
    THEN "css selector"
    ELSE IF StartsWith(selector, "/") \/ StartsWith(selector, "(")
         THEN "xpath"
         ELSE "css selector"

\* What self.wait.until(EC.element_to_be_clickable(...)) can answer: the
\* element, a TimeoutException, or another error (an invalid expression, a
\* closed window).
WaitOutcomes == {"clickable", "TimeoutException", "WebDriverException"}

None == [by |-> "None", sel |-> << >>]

\* The element a locator designates on the page.
ElementAt(by, selector) == [by |-> by, sel |-> selector]

SelectorLists ==
    UNION { [1..n -> SelectorPool] : n \in 0..MaxSelectors }

WaitHandled_Any(exc) == Catches("Exception", exc)

\* except TimeoutException: continue
WaitHandled(exc) == Catches("TimeoutException", exc)

NextCandidate_Same(i) == i

\* for selector in selectors: the next candidate
NextCandidate(i) == i + 1

PcAfterFound_Continue == "loop"

\* return element
PcAfterFound == "returned"

InitFindIdle ==
    /\ fpc = "idle" /\ selectors = << >> /\ page = << >> /\ fi = 1
    /\ fresult = None /\ waits = << >> /\ fraised = "none"

InitFind ==
    /\ fpc = "loop"
    /\ selectors \in SelectorLists
    /\ page \in [DOMAIN selectors -> WaitOutcomes]
    /\ fi = 1 /\ fresult = None /\ waits = << >> /\ fraised = "none"

\* One iteration of the loop: the wait on selectors[fi] and what follows.
FindWait ==
    /\ fpc = "loop" /\ fi <= Len(selectors)
    /\ LET selector == selectors[fi]
           by == Dialect(selector)
           out == page[fi]
       IN  /\ waits' = Append(waits, [pos |-> fi, by |-> by, sel |-> selector])
           /\ IF out = "clickable"
              THEN /\ fresult' = ElementAt(by, selector)
                   /\ fpc' = PcAfterFound
                   /\ fi' = IF PcAfterFound = "loop" THEN NextCandidate(fi) ELSE fi
                   /\ UNCHANGED fraised
              ELSE IF WaitHandled(out)
                   THEN /\ fi' = NextCandidate(fi)
                        /\ UNCHANGED <<fpc, fresult, fraised>>
                   ELSE /\ fpc' = "raised"
                        /\ fraised' = out
                        /\ UNCHANGED <<fi, fresult>>
    /\ UNCHANGED <<selectors, page>>
    /\ UNCHANGED <<runVars, clickVars, mainVars>>

\* The loop is over with no candidate found: return None.
FindExhausted ==
    /\ fpc = "loop" /\ fi > Len(selectors)
    /\ fresult' = None
    /\ fpc' = "returned"
    /\ UNCHANGED <<selectors, page, fi, waits, fraised>>
    /\ UNCHANGED <<runVars, clickVars, mainVars>>

-----------------------------------------------------------------------------
(*                              _safe_click                                *)

max_retries_OffByOne == 3 + 1

max_retries == 3

\* The element handles a call may be given.
Elements == {"e1", "e2"}

\* driver.execute_script(scrollIntoView) and driver.execute_script(click)
ScriptOutcomes == {"ok", "StaleElementReferenceException"}

\* element.click()
ClickOutcomes ==
    {"ok", "ElementClickInterceptedException", "StaleElementReferenceException"}

ReturnOnNativeClick_False == FALSE

\* return True, after element.click()
ReturnOnNativeClick == TRUE

ReturnOnScriptClick_False == FALSE

\* return True, after the script click
ReturnOnScriptClick == TRUE

\* return False, on the last attempt
ReturnOnExhausted == FALSE

TryHandler_NoFallback(exc, a) ==
    IF Catches("Exception", exc)
    THEN IF a = max_retries - 1 THEN "return_false" ELSE "backoff"
    ELSE "raise"

TryHandler_FallbackFirstOnly(exc, a) ==
    IF Catches("ElementClickInterceptedException", exc)
    THEN IF a < max_retries - 2 THEN "js_click" ELSE "return_false"
    ELSE IF Catches("Exception", exc)
         THEN IF a = max_retries - 1 THEN "return_false" ELSE "backoff"
         ELSE "raise"

\* Where an exception raised by the scroll or the native click of attempt a
\* goes: the two except clauses of the outer try.
TryHandler(exc, a) ==
    IF Catches("ElementClickInterceptedException", exc)
    THEN IF a < max_retries - 1 THEN "js_click" ELSE "return_false"
    ELSE IF Catches("Exception", exc)
         THEN IF a = max_retries - 1 THEN "return_false" ELSE "backoff"
         ELSE "raise"

JsHandler_InterceptedOnly(exc) ==
    IF Catches("ElementClickInterceptedException", exc) THEN "backoff" ELSE "raise"

\* Where an exception raised by the script click goes: the inner try.
JsHandler(exc) ==
    IF Catches("Exception", exc) THEN "backoff" ELSE "raise"

RetryPc_ClickOnly == "click"

\* Where the next iteration of the for loop starts: the scroll, the first
\* statement of the try body.
RetryPc == "scroll"

Event(op, out) == [op |-> op, el |-> element, attempt |-> attempt, out |-> out]

InitClickIdle ==
    /\ cpc = "idle" /\ element = "e1" /\ attempt = 0 /\ cresult = FALSE
    /\ events = << >> /\ craised = "none"

InitClick ==
    /\ cpc = "scroll"
    /\ element \in Elements
    /\ attempt = 0 /\ cresult = FALSE /\ events = << >> /\ craised = "none"

\* The control transfer after an exception exc handled as `to`.
Handle(to, exc) ==
    /\ cpc' = CASE to = "js_click" -> "js_click"
                [] to = "backoff" -> "backoff"
                [] to = "return_false" -> "returned"
                [] OTHER -> "raised"
    /\ cresult' = IF to = "return_false" THEN ReturnOnExhausted ELSE cresult
    /\ craised' = IF to = "raise" THEN exc ELSE craised

\* driver.execute_script("arguments[0].scrollIntoView(...)", element), then
\* time.sleep(0.5)
SafeClickScroll ==
    /\ cpc = "scroll"
    /\ \E out \in ScriptOutcomes :
        IF out = "ok"
        THEN /\ events' = events \o <<Event("scroll", out), Event("settle", "ok")>>
             /\ cpc' = "click"
             /\ UNCHANGED <<cresult, craised>>
        ELSE /\ events' = Append(events, Event("scroll", out))
             /\ Handle(TryHandler(out, attempt), out)
    /\ UNCHANGED <<element, attempt>>
    /\ UNCHANGED <<runVars, findVars, mainVars>>

\* element.click()
SafeClickNative ==
    /\ cpc = "click"
    /\ \E out \in ClickOutcomes :
        /\ events' = Append(events, Event("click", out))
        /\ IF out = "ok"
           THEN /\ cpc' = "returned"
                /\ cresult' = ReturnOnNativeClick
                /\ UNCHANGED craised
           ELSE Handle(TryHandler(out, attempt), out)
    /\ UNCHANGED <<element, attempt>>
    /\ UNCHANGED <<runVars, findVars, mainVars>>

\* driver.execute_script("arguments[0].click();", element)
SafeClickScript ==
    /\ cpc = "js_click"
    /\ \E out \in ScriptOutcomes :
        /\ events' = Append(events, Event("js_click", out))
        /\ IF out = "ok"
           THEN /\ cpc' = "returned"
                /\ cresult' = ReturnOnScriptClick
                /\ UNCHANGED craised
           ELSE Handle(JsHandler(out), out)
    /\ UNCHANGED <<element, attempt>>
    /\ UNCHANGED <<runVars, findVars, mainVars>>

\* time.sleep(1), then the next iteration of the for loop, or the return
\* False after it.
SafeClickBackoff ==
    /\ cpc = "backoff"
    /\ events' = Append(events, Event("backoff", "ok"))
    /\ IF attempt + 1 < max_retries
       THEN /\ attempt' = attempt + 1
            /\ cpc' = RetryPc
            /\ UNCHANGED cresult
       ELSE /\ cpc' = "returned"
            /\ cresult' = FALSE
            /\ UNCHANGED attempt
    /\ UNCHANGED <<element, craised>>
    /\ UNCHANGED <<runVars, findVars, mainVars>>

-----------------------------------------------------------------------------
(*            main, __init__, _setup_driver, cleanup: the session          *)

NoStep ==
    [step |-> 0, ret |-> "none", exc |-> "none", raisedBy |-> "none",
     absent |-> {}, clickAttempted |-> FALSE, clickFailed |-> FALSE,
     assertFailed |-> FALSE, closedWindow |-> "none"]

InitMainIdle ==
    /\ mpc = "idle" /\ driver = "None" /\ windows = << >> /\ active = "none"
    /\ original_window = "None" /\ last = NoStep /\ cleanups = 0
    /\ mexc = "none" /\ setup = "pending" /\ interruptedStep = 0

\* main is entered: LectraTestAutomation(headless=False, timeout=10) is
\* about to run; __init__ has set driver, wait and original_window to None.
InitMain ==
    /\ mpc = "construct" /\ driver = "None" /\ windows = << >> /\ active = "none"
    /\ original_window = "None" /\ last = NoStep /\ cleanups = 0
    /\ mexc = "none" /\ setup = "pending" /\ interruptedStep = 0

\* The calls of the try block of _setup_driver that can fail: starting
\* Chrome, and configuring the started browser.
SetupSites == {"Chrome", "maximize_window"}

\* What such a call can raise, besides succeeding.
SetupOutcomes == {"ok", "WebDriverException", "KeyboardInterrupt"}

SetupDriverHandler_Swallow(exc) ==
    IF Catches("Exception", exc) THEN "continue" ELSE "raise"

\* except Exception as e: log, raise.  An exception that is no Exception
\* passes through the clause; either way it leaves _setup_driver.
SetupDriverHandler(exc) == "raise"

\* Whether main's try statement encloses the place an exception comes from:
\* the constructor call is before the try, run_complete_scenario inside it.
MainTryCovers(site) == site = "scenario"

\* The except clauses of main.
MainHandler(exc) ==
    IF Catches("KeyboardInterrupt", exc) THEN "interrupted"
    ELSE IF Catches("Exception", exc) THEN "failed"
    ELSE "raise"

\* test_automation = LectraTestAutomation(...): __init__ and _setup_driver.
MainConstruct ==
    /\ mpc = "construct"
    /\ \E site \in SetupSites, out \in SetupOutcomes :
        IF out = "ok"
        THEN /\ site = "maximize_window"
             /\ driver' = "session"
             /\ windows' = <<"w1">> /\ active' = "w1"
             /\ setup' = "ok"
             /\ mpc' = "scenario" /\ rpc' = "loop"
             /\ UNCHANGED <<mexc, cleanups>>
        ELSE /\ driver' = IF site = "Chrome" THEN "None" ELSE "session"
             /\ windows' = IF site = "Chrome" THEN << >> ELSE <<"w1">>
             /\ active' = IF site = "Chrome" THEN "none" ELSE "w1"
             /\ setup' = IF Catches("Exception", out) THEN "failed" ELSE "interrupted"
             /\ IF SetupDriverHandler(out) = "raise"
                THEN IF MainTryCovers("construct")
                     THEN /\ mpc' = IF MainHandler(out) = "raise" THEN "raised" ELSE "done"
                          /\ mexc' = IF MainHandler(out) = "raise" THEN out ELSE "none"
                          /\ cleanups' = cleanups + 1
                          /\ UNCHANGED rpc
                     ELSE /\ mpc' = "raised" /\ mexc' = out
                          /\ UNCHANGED <<rpc, cleanups>>
                ELSE /\ mpc' = "scenario" /\ rpc' = "loop"
                     /\ UNCHANGED <<mexc, cleanups>>
    /\ UNCHANGED <<idx, results, outcomes, trace, propagating>>
    /\ UNCHANGED <<original_window, last, interruptedStep>>
    /\ UNCHANGED <<findVars, clickVars>>

\* A KeyboardInterrupt arrives while a step runs: it passes the except
\* Exception clauses of the step and of the sequencer, reaches main's
\* except KeyboardInterrupt, and the finally clause calls cleanup.
MainInterrupted ==
    /\ mpc = "scenario" /\ idx <= NumSteps
    /\ ~SequencerCatches("KeyboardInterrupt")
    /\ rpc' = "propagated" /\ propagating' = "KeyboardInterrupt"
    /\ interruptedStep' = idx
    /\ IF MainTryCovers("scenario")
       THEN /\ mpc' = IF MainHandler("KeyboardInterrupt") = "raise"
                      THEN "raised" ELSE "done"
            /\ mexc' = IF MainHandler("KeyboardInterrupt") = "raise"
                       THEN "KeyboardInterrupt" ELSE "none"
            /\ cleanups' = cleanups + 1
       ELSE /\ mpc' = "raised" /\ mexc' = "KeyboardInterrupt"
            /\ UNCHANGED cleanups
    /\ UNCHANGED <<idx, results, outcomes, trace>>
    /\ UNCHANGED <<driver, windows, active, original_window, last, setup>>
    /\ UNCHANGED <<findVars, clickVars>>

\* run_complete_scenario returns results; main prints, returns them, and
\* the finally clause calls cleanup.
MainFinish ==
    /\ mpc = "scenario" /\ idx > NumSteps
    /\ rpc' = "returned"
    /\ mpc' = "done"
    /\ cleanups' = cleanups + 1
    /\ UNCHANGED <<idx, results, outcomes, trace, propagating>>
    /\ UNCHANGED <<driver, windows, active, original_window, last, mexc,
                   setup, interruptedStep>>
    /\ UNCHANGED <<findVars, clickVars>>

-----------------------------------------------------------------------------
(*                           The step methods                              *)
(* A step method is an action that draws what its calls answer:            *)
(*   f   _find_element_by_selectors: "found", "none" (it returned None) or *)
(*       "error" (it raised: a lookup error that is no timeout);           *)
(*   c   _safe_click: TRUE or FALSE;                                       *)
(*   w   self.wait.until: "ok" or "timeout" (it raised TimeoutException);  *)
(*   a   the condition given to assert_condition: TRUE or FALSE;           *)
(* and yields a record: how the step ended (ret "True", "False" or         *)
(* "raise"), whether an element it looked up was absent, whether it        *)
(* attempted a click, whether a click it attempted reported failure, and   *)
(* the session's windows after it.                                         *)

FindResults == {"found", "none", "error"}

WaitResults == {"ok", "timeout"}

\* The handle of the next window the browser opens.
Handles == <<"w1", "w2", "w3">>

NewHandle(wins) == Handles[Len(wins) + 1]

Range(seq) == {seq[i] : i \in 1..Len(seq)}

Without(seq, h) == SelectSeq(seq, LAMBDA x : x # h)

\* The state a step starts in.
Entry ==
    [ret |-> "none", exc |-> "none", raisedBy |-> "none", absent |-> {},
     clickAttempted |-> FALSE, clickFailed |-> FALSE, assertFailed |-> FALSE,
     closedWindow |-> "none", wins |-> windows, act |-> active, orig |-> original_window]

\* return v
Ret(b, v) == [b EXCEPT !.ret = IF v THEN "True" ELSE "False"]

\* exc leaves the step method; by: what raised it
Raise(b, exc, by) == [b EXCEPT !.ret = "raise", !.exc = exc, !.raisedBy = by]

\* the k-th element lookup of the step found nothing
Absent(b, k) == [b EXCEPT !.absent = @ \cup {k}]

\* _safe_click was called and returned ok
Clicked(b, ok) ==
    [b EXCEPT !.clickAttempted = TRUE, !.clickFailed = @ \/ ~ok]

\* _find_element_by_selectors raised
FindError(b) == Raise(b, "WebDriverException", "error")

\* assert_condition raised: the condition was false, the AssertionError is
\* logged and raised again.
AssertFailed(b) ==
    Raise([b EXCEPT !.assertFailed = TRUE], "AssertionError", "assert")

CaughtInStep_Pass(run) ==
    [run EXCEPT !.ret = "True", !.exc = "none", !.raisedBy = "none"]

\* try / except Exception around the body of a step (steps 1, 3, 12): an
\* exception the clause matches is logged and the step returns False.
CaughtInStep(run) ==
    IF run.ret = "raise" /\ Catches("Exception", run.exc)
    THEN [run EXCEPT !.ret = "False", !.exc = "none", !.raisedBy = "none"]
    ELSE run

\* One iteration of the loop of run_complete_scenario for step n, whose
\* call did what run says: record the result (or False when it raised) and
\* move to the next step.
RunStep(n, run) ==
    /\ results' = IF run.ret = "raise"
                  THEN IF SequencerCatches(run.exc)
                       THEN ResultsAfterRaise(results, Steps[n])
                       ELSE results
                  ELSE Put(results, Steps[n], run.ret = "True")
    /\ idx' = NextStepIndex(idx, run.ret = "True")
    /\ last' = [step |-> n, ret |-> run.ret, exc |-> run.exc,
                raisedBy |-> run.raisedBy, absent |-> run.absent,
                clickAttempted |-> run.clickAttempted,
                clickFailed |-> run.clickFailed,
                assertFailed |-> run.assertFailed,
                closedWindow |-> run.closedWindow]
    /\ windows' = run.wins /\ active' = run.act /\ original_window' = run.orig
    /\ UNCHANGED <<rpc, outcomes, trace, propagating>>
    /\ UNCHANGED <<mpc, driver, cleanups, mexc, setup, interruptedStep>>
    /\ UNCHANGED <<findVars, clickVars>>

\* The sequencer is at step n.
AtStep(n) == mpc = "scenario" /\ idx = n

\* step_1_open_google: everything is inside try / except Exception.
step_1_open_google ==
    /\ AtStep(1)
    /\ \E g \in {"ok", "error"} :
        IF g = "error" THEN RunStep(1, Ret(Entry, FALSE))
        ELSE \E a1 \in BOOLEAN :
            IF ~a1 THEN RunStep(1, CaughtInStep(AssertFailed(Entry)))
            ELSE \E a2 \in BOOLEAN :
                IF ~a2 THEN RunStep(1, CaughtInStep(AssertFailed(Entry)))
                ELSE RunStep(1, Ret(Entry, TRUE))

\* step_2_handle_google_cookies: the two waits and the assertion are
\* outside any try; a wait that finds no element raises TimeoutException
\* (it never returns a false value, so the else branch is not reached, and
\* the asserted condition, search_box is not None, always holds).
step_2_handle_google_cookies ==
    /\ AtStep(2)
    /\ \E w1 \in WaitResults :
        IF w1 = "timeout"
        THEN RunStep(2, Raise(Absent(Entry, 1), "TimeoutException", "absent"))
        ELSE \E c \in BOOLEAN :
            IF ~c THEN RunStep(2, Ret(Clicked(Entry, FALSE), FALSE))
            ELSE \E w2 \in WaitResults :
                IF w2 = "timeout"
                THEN RunStep(2, Raise(Absent(Clicked(Entry, TRUE), 2),
                                      "TimeoutException", "absent"))
                ELSE RunStep(2, Ret(Clicked(Entry, TRUE), TRUE))

\* step_3_search_lectra: everything is inside try / except Exception.
step_3_search_lectra ==
    /\ AtStep(3)
    /\ \E w1 \in WaitResults :
        IF w1 = "timeout" THEN RunStep(3, Ret(Absent(Entry, 1), FALSE))
        ELSE \E a1 \in BOOLEAN :
            IF ~a1 THEN RunStep(3, CaughtInStep(AssertFailed(Entry)))
            ELSE \E w2 \in WaitResults :
                IF w2 = "timeout" THEN RunStep(3, Ret(Absent(Entry, 2), FALSE))
                ELSE \E a2 \in BOOLEAN :
                    IF ~a2 THEN RunStep(3, CaughtInStep(AssertFailed(Entry)))
                    ELSE RunStep(3, Ret(Entry, TRUE))

\* step_4_click_lectra_website: the try catches only TimeoutException.
step_4_click_lectra_website ==
    /\ AtStep(4)
    /\ \E f \in FindResults :
        IF f = "error" THEN RunStep(4, FindError(Entry))
        ELSE IF f = "none" THEN RunStep(4, Ret(Absent(Entry, 1), FALSE))
        ELSE \E c \in BOOLEAN :
            IF ~c THEN RunStep(4, Ret(Clicked(Entry, FALSE), FALSE))
            ELSE \E w \in WaitResults :
                IF w = "timeout" THEN RunStep(4, Ret(Clicked(Entry, TRUE), FALSE))
                ELSE \E a \in BOOLEAN :
                    IF ~a THEN RunStep(4, AssertFailed(Clicked(Entry, TRUE)))
                    ELSE RunStep(4, Ret(Clicked(Entry, TRUE), TRUE))

\* step_5_handle_lectra_cookies
step_5_handle_lectra_cookies ==
    /\ AtStep(5)
    /\ \E f \in FindResults :
        IF f = "error" THEN RunStep(5, FindError(Entry))
        ELSE IF f = "none" THEN RunStep(5, Ret(Absent(Entry, 1), TRUE))
        ELSE \E c \in BOOLEAN :
            IF ~c THEN RunStep(5, Ret(Clicked(Entry, FALSE), FALSE))
            ELSE \E a \in BOOLEAN :
                IF ~a THEN RunStep(5, AssertFailed(Clicked(Entry, TRUE)))
                ELSE RunStep(5, Ret(Clicked(Entry, TRUE), TRUE))

\* The body shared by steps 6, 7 and 9: find and click a menu button, find
\* and click an entry of the menu, assert on the URL.
TwoClicksThenAssert(n) ==
    \E f1 \in FindResults :
        IF f1 = "error" THEN RunStep(n, FindError(Entry))
        ELSE IF f1 = "none" THEN RunStep(n, Ret(Absent(Entry, 1), FALSE))
        ELSE \E c1 \in BOOLEAN :
            IF ~c1 THEN RunStep(n, Ret(Clicked(Entry, FALSE), FALSE))
            ELSE \E f2 \in FindResults :
                LET b == Clicked(Entry, TRUE)
                IN  IF f2 = "error" THEN RunStep(n, FindError(b))
                    ELSE IF f2 = "none" THEN RunStep(n, Ret(Absent(b, 2), FALSE))
                    ELSE \E c2 \in BOOLEAN :
                        IF ~c2 THEN RunStep(n, Ret(Clicked(b, FALSE), FALSE))
                        ELSE \E a \in BOOLEAN :
                            IF ~a THEN RunStep(n, AssertFailed(Clicked(b, TRUE)))
                            ELSE RunStep(n, Ret(Clicked(b, TRUE), TRUE))

step_6_switch_to_english == AtStep(6) /\ TwoClicksThenAssert(6)

step_7_navigate_fashion_menu == AtStep(7) /\ TwoClicksThenAssert(7)

\* step_8_click_automotive_furniture: the value of _safe_click is dropped
\* and the step returns True.
step_8_click_automotive_furniture ==
    /\ AtStep(8)
    /\ \E f1 \in FindResults :
        IF f1 = "error" THEN RunStep(8, FindError(Entry))
        ELSE \E c1 \in (IF f1 = "none" THEN {TRUE} ELSE BOOLEAN) :
            LET b == IF f1 = "none" THEN Absent(Entry, 1) ELSE Clicked(Entry, c1)
            IN  \E f2 \in FindResults :
                    IF f2 = "error" THEN RunStep(8, FindError(b))
                    ELSE IF f2 = "none" THEN RunStep(8, Ret(Absent(b, 2), TRUE))
                    ELSE \E c2 \in BOOLEAN : RunStep(8, Ret(Clicked(b, c2), TRUE))

step_9_navigate_about_us == AtStep(9) /\ TwoClicksThenAssert(9)

\* switch_to_careers_tab: with more than one window, switch to the first
\* that is not original_window; then wait for the careers URL.
switch_to_careers_tab(n, b) ==
    LET others == SelectSeq(b.wins, LAMBDA x : x # b.orig)
        b1 == IF Len(b.wins) > 1 /\ others # << >>
              THEN [b EXCEPT !.act = others[1]]
              ELSE b
    IN  \E w \in WaitResults : RunStep(n, Ret(b1, w = "ok"))

\* _navigate_to_job_opportunities: records original_window, then clicks
\* the link, which opens the careers site in a new tab or in the same one.
navigate_to_job_opportunities(n, b) ==
    LET b1 == [b EXCEPT !.orig = b.act]
    IN  \E f2 \in FindResults :
            IF f2 = "error" THEN RunStep(n, FindError(b1))
            ELSE IF f2 = "none" THEN RunStep(n, Ret(Absent(b1, 2), FALSE))
            ELSE \E c2 \in BOOLEAN :
                IF ~c2 THEN RunStep(n, Ret(Clicked(b1, FALSE), FALSE))
                ELSE \E newTab \in BOOLEAN :
                    LET b2 == Clicked(b1, TRUE)
                        b3 == IF newTab
                              THEN [b2 EXCEPT !.wins = Append(@, NewHandle(@))]
                              ELSE b2
                    IN  switch_to_careers_tab(n, b3)

\* step_10_navigate_to_careers
step_10_navigate_to_careers ==
    /\ AtStep(10)
    /\ \E f1 \in FindResults :
        IF f1 = "error" THEN RunStep(10, FindError(Entry))
        ELSE IF f1 = "none" THEN RunStep(10, Ret(Absent(Entry, 1), FALSE))
        ELSE \E c1 \in BOOLEAN :
            IF ~c1 THEN RunStep(10, Ret(Clicked(Entry, FALSE), FALSE))
            ELSE navigate_to_job_opportunities(10, Clicked(Entry, TRUE))

\* step_11_handle_career_cookies
step_11_handle_career_cookies ==
    /\ AtStep(11)
    /\ \E f \in FindResults :
        IF f = "error" THEN RunStep(11, FindError(Entry))
        ELSE IF f = "none" THEN RunStep(11, Ret(Absent(Entry, 1), TRUE))
        ELSE \E c \in BOOLEAN : RunStep(11, Ret(Clicked(Entry, c), c))

\* driver.close() then driver.switch_to.window(self.original_window): the
\* active window is closed; the switch raises when original_window is no
\* open window, which the except Exception of step 12 turns into False;
\* otherwise the last assertion decides.
CloseAndReturn(n, b) ==
    LET b1 == [b EXCEPT !.closedWindow = b.act,
                        !.wins = Without(@, b.act),
                        !.act = "none"]
    IN  IF b1.orig \in Range(b1.wins)
        THEN \E a3 \in BOOLEAN :
                 LET b2 == [b1 EXCEPT !.act = b1.orig]
                 IN  IF ~a3 THEN RunStep(n, CaughtInStep(AssertFailed(b2)))
                     ELSE RunStep(n, Ret(b2, TRUE))
        ELSE RunStep(n, Ret(b1, FALSE))

\* step_12_search_and_click_first_job: the first find and click are before
\* the try, the rest inside try / except Exception.  The click on the first
\* job opens the job in a new tab or in the same one; the driver stays on
\* the window it was on.
step_12_search_and_click_first_job ==
    /\ AtStep(12)
    /\ \E f1 \in FindResults :
        IF f1 = "error" THEN RunStep(12, FindError(Entry))
        ELSE IF f1 = "none" THEN RunStep(12, Ret(Absent(Entry, 1), FALSE))
        ELSE \E c1 \in BOOLEAN :
            IF ~c1 THEN RunStep(12, Ret(Clicked(Entry, FALSE), FALSE))
            ELSE \E w \in WaitResults :
                LET b == Clicked(Entry, TRUE)
                IN  IF w = "timeout" THEN RunStep(12, Ret(Absent(b, 2), FALSE))
                    ELSE \E a1 \in BOOLEAN :
                        IF ~a1 THEN RunStep(12, CaughtInStep(AssertFailed(b)))
                        ELSE \E f2 \in FindResults :
                            IF f2 = "error" THEN RunStep(12, CaughtInStep(FindError(b)))
                            ELSE IF f2 = "none"
                                 THEN RunStep(12, Ret(Absent(b, 3), FALSE))
                                 ELSE \E c2 \in BOOLEAN :
                                     IF ~c2
                                     THEN RunStep(12, Ret(Clicked(b, FALSE), FALSE))
                                     ELSE \E newTab, a2 \in BOOLEAN :
                                         LET b2 == Clicked(b, TRUE)
                                             b3 == IF newTab
                                                   THEN [b2 EXCEPT !.wins =
                                                            Append(@, NewHandle(@))]
                                                   ELSE b2
                                         IN  IF ~a2
                                             THEN RunStep(12, CaughtInStep(
                                                                AssertFailed(b3)))
                                             ELSE CloseAndReturn(12, b3)

-----------------------------------------------------------------------------
(*                           Specifications                                *)

Init == InitRun /\ InitFindIdle /\ InitClickIdle /\ InitMainIdle

Next == BeginStep \/ StepReturns \/ StepRaises \/ ReturnResults

Spec == Init /\ [][Next]_vars

FindInit == InitRunIdle /\ InitFind /\ InitClickIdle /\ InitMainIdle

FindNext == FindWait \/ FindExhausted

SpecFind == FindInit /\ [][FindNext]_vars

ClickInit == InitRunIdle /\ InitFindIdle /\ InitClick /\ InitMainIdle

ClickNext ==
    SafeClickScroll \/ SafeClickNative \/ SafeClickScript \/ SafeClickBackoff

SpecClick == ClickInit /\ [][ClickNext]_vars

MainInit == InitRunIdle /\ InitFindIdle /\ InitClickIdle /\ InitMain

MainNext ==
    \/ MainConstruct \/ MainInterrupted \/ MainFinish
    \/ step_1_open_google \/ step_2_handle_google_cookies
    \/ step_3_search_lectra \/ step_4_click_lectra_website
    \/ step_5_handle_lectra_cookies \/ step_6_switch_to_english
    \/ step_7_navigate_fashion_menu \/ step_8_click_automotive_furniture
    \/ step_9_navigate_about_us \/ step_10_navigate_to_careers
    \/ step_11_handle_career_cookies \/ step_12_search_and_click_first_job

SpecMain == MainInit /\ [][MainNext]_vars

-----------------------------------------------------------------------------
(*                    Properties of run_complete_scenario                  *)

\* The events of a run that started and ended its first n \div 2 steps in
\* the listed order (and started the next one when n is odd).
ExpectedTrace(n) ==
    [i \in 1..n |-> IF i % 2 = 1 THEN <<"start", Steps[(i + 1) \div 2]>>
                                 ELSE <<"end", Steps[i \div 2]>>]

\* C1: when run_complete_scenario returns (it was not interrupted), the
\* result map holds one entry for each of the 12 step names, whatever each
\* step did (returned true, returned false, raised); on the way, it holds
\* one entry for each step the loop is past.
C1_AllStepsInResultMap ==
    /\ rpc \in {"loop", "returned"} =>
        DOMAIN results = {Steps[i] : i \in 1..(idx - 1)}
    /\ rpc = "returned" =>
        /\ DOMAIN results = StepNames
        /\ Cardinality(DOMAIN results) = 12
        /\ Len(outcomes) = 12

C1_Witness ==
    /\ rpc = "returned"
    /\ outcomes[4] = "failed"
    /\ \E i \in 1..Len(outcomes) : outcomes[i] = "raised"
    /\ \E i \in 1..Len(outcomes) : outcomes[i] = "passed"
    /\ Cardinality(DOMAIN results) = 12

\* C2: the steps are started in the listed order, each once, a step is
\* started only after the previous one ended, and every outcome of a step
\* (passed, failed, raised) leads to the next step: the run returns only
\* after all 12 steps started and ended.
C2_StepsInOrderEachOnce ==
    /\ Len(trace) <= 2 * NumSteps
    /\ trace = ExpectedTrace(Len(trace))
    /\ rpc = "loop" => Len(trace) = 2 * (idx - 1) /\ Len(outcomes) = idx - 1
    /\ rpc = "running" => Len(trace) = 2 * idx - 1 /\ Len(outcomes) = idx - 1
    /\ rpc = "returned" => Len(trace) = 2 * NumSteps

C2_Witness ==
    /\ rpc = "returned"
    /\ outcomes[1] = "failed" /\ outcomes[2] = "raised" /\ outcomes[3] = "passed"
    /\ trace[24] = <<"end", "Search Jobs & Click First">>

\* C3: an exception (a subclass of Exception) raised by a step never leaves
\* run_complete_scenario, and the step's entry in the result map is False.
C3_RaisedStepIsFailedNotPropagated ==
    /\ rpc = "propagated" => ~Catches("Exception", propagating)
    /\ \A i \in 1..Len(outcomes) :
        outcomes[i] = "raised" =>
            Steps[i] \in DOMAIN results /\ results[Steps[i]] = FALSE

C3_Witness ==
    /\ rpc = "returned"
    /\ outcomes[12] = "raised"
    /\ results["Search Jobs & Click First"] = FALSE

-----------------------------------------------------------------------------
(*                 Properties of _find_element_by_selectors                *)

\* Candidate k is the first one that becomes clickable within its wait:
\* the waits on the candidates before it time out.
FirstClickable(k) ==
    /\ page[k] = "clickable"
    /\ \A j \in 1..(k - 1) : page[j] = "TimeoutException"

AllTimeOut == \A k \in DOMAIN selectors : page[k] = "TimeoutException"

\* C4: when candidate k is the first that becomes clickable, the candidates
\* are waited on in order up to k and no further, and the call returns the
\* element of candidate k.
C4_FirstMatchReturned ==
    \A k \in DOMAIN selectors :
        FirstClickable(k) =>
            /\ fpc # "raised"
            /\ \A i \in 1..Len(waits) : waits[i].pos = i /\ i <= k
            /\ fpc = "loop" => fi <= k /\ Len(waits) = fi - 1
            /\ fpc = "returned" =>
                /\ Len(waits) = k
                /\ fresult = ElementAt(Dialect(selectors[k]), selectors[k])
                /\ fresult # None

C4_Witness ==
    /\ fpc = "returned"
    /\ Len(selectors) = 3
    /\ FirstClickable(2)
    /\ page[3] = "clickable"
    /\ selectors[3] # selectors[2]
    /\ fresult = ElementAt(Dialect(selectors[2]), selectors[2])
    /\ Len(waits) = 2

\* C5: when every candidate of a list of length n times out, the call
\* returns None after exactly n waits, one per candidate, in list order and
\* none repeated; for the empty list it returns None with no wait.
C5_AllTimeOutReturnsNone ==
    AllTimeOut =>
        /\ fpc # "raised"
        /\ Len(waits) <= Len(selectors)
        /\ \A i \in 1..Len(waits) :
            waits[i].pos = i /\ waits[i].sel = selectors[i]
        /\ fpc = "returned" =>
            /\ fresult = None
            /\ Len(waits) = Len(selectors)
            /\ selectors = << >> => waits = << >>

C5_Witness ==
    /\ fpc = "returned"
    /\ Len(selectors) = 3
    /\ AllTimeOut
    /\ Len(waits) = 3
    /\ fresult = None

-----------------------------------------------------------------------------
(*                        Properties of _safe_click                        *)

Intercepted == "ElementClickInterceptedException"

EventsOf(op) == {i \in 1..Len(events) : events[i].op = op}

HasEvent(op) == EventsOf(op) # {}

\* A native click rejected as intercepted before the last attempt.
InterceptedBeforeLast(i) ==
    /\ events[i].op = "click"
    /\ events[i].out = Intercepted
    /\ events[i].attempt < max_retries - 1

\* C6, as stated: whenever _safe_click returns False, the script click was
\* attempted at least once during the call.
C6_Original_FallbackBeforeFailure ==
    (cpc = "returned" /\ cresult = FALSE) => HasEvent("js_click")

\* C6, amended: whenever _safe_click returns False and a native click was
\* intercepted on attempt 1 or 2, the script click was attempted at least
\* once during the call.
C6_FallbackBeforeFailureIfIntercepted ==
    ( /\ cpc = "returned" /\ cresult = FALSE
      /\ \E i \in 1..Len(events) : InterceptedBeforeLast(i) )
    => HasEvent("js_click")

C6_Witness ==
    /\ cpc = "returned" /\ cresult = FALSE
    /\ \E i \in 1..Len(events) : InterceptedBeforeLast(i)
    /\ HasEvent("js_click")

\* The event after an intercepted native click is the script click of the
\* same attempt on the same element (or that click is what comes next).
FollowedByScriptClick(i) ==
    IF i < Len(events)
    THEN /\ events[i + 1].op = "js_click"
         /\ events[i + 1].el = events[i].el
         /\ events[i + 1].attempt = events[i].attempt
    ELSE cpc = "js_click"

\* C7, as stated: every native click rejected as intercepted, on any of the
\* 3 attempts, is followed by a script click on the same element before the
\* call gives up or starts another attempt.
C7_Original_EveryInterceptionFallsBack ==
    \A i \in 1..Len(events) :
        (events[i].op = "click" /\ events[i].out = Intercepted)
            => FollowedByScriptClick(i)

\* C7, amended: every native click rejected as intercepted on attempt 1 or
\* 2 is followed by a script click on the same element before the call
\* gives up or starts another attempt; an interception on attempt 3 ends the
\* call with False and no script click.
C7_InterceptionFallsBackBeforeLastAttempt ==
    \A i \in 1..Len(events) :
        (events[i].op = "click" /\ events[i].out = Intercepted) =>
            IF events[i].attempt < max_retries - 1
            THEN FollowedByScriptClick(i)
            ELSE i = Len(events) /\ cpc = "returned" /\ cresult = FALSE

C7_Witness ==
    /\ cpc = "returned" /\ cresult = TRUE
    /\ \E i \in 1..(Len(events) - 1) :
        /\ events[i].op = "click" /\ events[i].out = Intercepted
        /\ events[i].attempt = 1
        /\ events[i + 1].op = "js_click" /\ events[i + 1].out = "ok"

\* The call returned after its native click succeeded.
NativeSucceeded ==
    /\ cpc = "returned"
    /\ events # << >>
    /\ events[Len(events)].op = "click" /\ events[Len(events)].out = "ok"

\* The native click was intercepted on attempts 1 and 2, and the script
\* click failed on attempt 1 and succeeded on attempt 2.
FallbackSucceededOnSecond ==
    /\ cpc = "returned"
    /\ \E i, j \in EventsOf("click") :
        /\ events[i].attempt = 0 /\ events[i].out = Intercepted
        /\ events[j].attempt = 1 /\ events[j].out = Intercepted
    /\ events[Len(events)].op = "js_click"
    /\ events[Len(events)].attempt = 1
    /\ events[Len(events)].out = "ok"

\* The third attempt failed.
Exhausted ==
    /\ cpc = "returned"
    /\ events # << >>
    /\ events[Len(events)].attempt = max_retries - 1
    /\ events[Len(events)].op \in {"scroll", "click"}
    /\ events[Len(events)].out # "ok"

\* C8, as stated: the outcome is tri-state; after interceptions on attempts
\* 1 and 2 and a script click that succeeds on attempt 2, the outcome
\* returned differs from the outcome of a successful native click (True);
\* after 3 exhausted attempts it is the failed one.
C8_Original_TriStateOutcome ==
    /\ FallbackSucceededOnSecond => cresult # TRUE
    /\ Exhausted => cresult = FALSE

\* C8, amended: the outcome is a boolean; after interceptions on attempts 1
\* and 2 and a script click that succeeds on attempt 2 it is True, the same
\* value a successful native click returns; it is False exactly when the 3
\* attempts are exhausted.
C8_BooleanOutcome ==
    /\ cresult \in BOOLEAN
    /\ FallbackSucceededOnSecond => cresult = TRUE
    /\ NativeSucceeded => cresult = TRUE
    /\ cpc = "returned" => (cresult = FALSE <=> Exhausted)

C8_Witness ==
    /\ FallbackSucceededOnSecond
    /\ cresult = TRUE
    /\ Cardinality(EventsOf("js_click")) = 2

\* The native click of the first attempt succeeded.
FirstNativeClickOk ==
    \E i \in EventsOf("click") : events[i].attempt = 0 /\ events[i].out = "ok"

\* C9: when the native click succeeds on the first attempt the call returns
\* True, having issued exactly one scroll-into-view, one native click, no
\* script click and no backoff sleep.
C9_FirstClickSucceeds ==
    FirstNativeClickOk =>
        /\ cpc = "returned" /\ cresult = TRUE
        /\ Cardinality(EventsOf("scroll")) = 1
        /\ Cardinality(EventsOf("click")) = 1
        /\ ~HasEvent("js_click")
        /\ ~HasEvent("backoff")

C9_Witness ==
    /\ FirstNativeClickOk
    /\ cpc = "returned" /\ cresult = TRUE
    /\ Len(events) = 3

\* C10: _safe_click never raises: whatever the scroll, the native click and
\* the script click raise, no exception leaves the call, the attempts stay
\* within the retry budget, and the call ends by returning a boolean.
C10_NeverRaises ==
    /\ cpc # "raised"
    /\ craised = "none"
    /\ attempt < max_retries
    /\ Len(events) <= 5 * max_retries
    /\ cpc \in {"scroll", "click", "js_click", "backoff", "returned"}
    /\ cpc = "returned" => cresult \in BOOLEAN

C10_Witness ==
    /\ cpc = "returned" /\ cresult = FALSE
    /\ attempt = max_retries - 1
    /\ \E i \in EventsOf("js_click") : events[i].out # "ok"
    /\ \E i \in EventsOf("scroll") : events[i].out # "ok"
    /\ \E i \in EventsOf("click") : events[i].out = "StaleElementReferenceException"

-----------------------------------------------------------------------------
(*        Further properties of _find_element_by_selectors, _safe_click    *)

\* C15, as stated: whatever failure the wait on a candidate produces (a
\* timeout or any other lookup error), nothing is raised out of the call
\* and the next candidate in order is tried.
C15_Original_EveryLookupFailureSilent ==
    /\ fpc # "raised"
    /\ fraised = "none"
    /\ \A i \in 1..Len(waits) :
        page[i] # "clickable" =>
            \/ i < Len(waits) /\ waits[i + 1].pos = i + 1
            \/ i = Len(waits) /\ fpc = "loop" /\ fi = i + 1

\* The last attempt ended in a failure of its scroll or of its native click.
ThirdAttemptFailed ==
    /\ events # << >>
    /\ events[Len(events)].attempt = 2
    /\ events[Len(events)].op \in {"scroll", "click"}
    /\ events[Len(events)].out # "ok"

\* C16: whatever the scroll, the native click and the script click answer,
\* one call issues at most 3 scroll-into-view calls and at most 3 native
\* clicks, in attempts 1 to 3, and returns False once the third attempt has
\* failed.
C16_AtMostThreeAttempts ==
    /\ Cardinality(EventsOf("scroll")) <= 3
    /\ Cardinality(EventsOf("click")) <= 3
    /\ \A i \in 1..Len(events) : events[i].attempt \in 0..2
    /\ \A i, j \in EventsOf("scroll") : events[i].attempt = events[j].attempt => i = j
    /\ ThirdAttemptFailed => cpc = "returned" /\ cresult = FALSE

C16_Witness ==
    /\ ThirdAttemptFailed
    /\ cpc = "returned" /\ cresult = FALSE
    /\ Cardinality(EventsOf("scroll")) = 3
    /\ Cardinality(EventsOf("click")) = 3

\* C17: every native click is preceded, within the same attempt, by a
\* scroll-into-view call on the same element (and the settle delay): a retry
\* after a failure that is not an interception, or after a failed script
\* click, scrolls again before it clicks.
C17_ScrollBeforeEveryNativeClick ==
    \A i \in EventsOf("click") :
        /\ i >= 3
        /\ events[i - 2].op = "scroll" /\ events[i - 2].out = "ok"
        /\ events[i - 2].attempt = events[i].attempt
        /\ events[i - 2].el = events[i].el
        /\ events[i - 1].op = "settle"

C17_Witness ==
    /\ \E i \in EventsOf("click") :
        /\ events[i].attempt = 1
        /\ events[i - 2].op = "scroll" /\ events[i - 2].attempt = 1
        /\ \E j \in EventsOf("click") :
            events[j].attempt = 0 /\ events[j].out = "StaleElementReferenceException"
    /\ \E i \in EventsOf("click") :
        /\ events[i].attempt = 2
        /\ \E j \in EventsOf("js_click") : events[j].attempt = 1 /\ events[j].out # "ok"

\* The dialect the prefix of a selector decides, by its first character.
DialectByPrefix(selector) ==
    CASE selector # << >> /\ selector[1] \in {"#", "."} -> "css selector"
      [] selector # << >> /\ selector[1] \in {"/", "("} -> "xpath"
      [] OTHER -> "css selector"

\* C18: every selector is looked up in exactly one dialect, decided by its
\* prefix alone: '#' or '.' gives CSS, '/' or '(' gives XPath, anything else
\* the default dialect, CSS; one wait per candidate tried.
C18_DialectByPrefix ==
    /\ \A i \in 1..Len(waits) :
        /\ waits[i].sel = selectors[waits[i].pos]
        /\ waits[i].by = DialectByPrefix(waits[i].sel)
        /\ waits[i].by \in {"css selector", "xpath"}
    /\ \A i, j \in 1..Len(waits) : waits[i].pos = waits[j].pos => i = j

C18_Witness ==
    /\ Len(waits) = 3
    /\ waits[1].sel = <<"(", "/", "/", "a", ")">> /\ waits[1].by = "xpath"
    /\ waits[2].sel = <<"a">> /\ waits[2].by = "css selector"
    /\ waits[3].sel = <<".", "a">> /\ waits[3].by = "css selector"


-----------------------------------------------------------------------------
(*                 Properties of main and of the step methods              *)

\* C11 (as stated): no step method raises an exception to the sequencer
\* because an element was absent within the wait or because a click could
\* not be made.  step_2_handle_google_cookies breaks it: its waits are
\* outside any try.
C11_Original_NoStepRaisesForAbsentOrUnclickable ==
    last.ret = "raise" => last.raisedBy \notin {"absent", "click"}

\* The steps that handle an optional cookie-consent banner.
CookieSteps == {2, 5, 11}

\* The banner, the first element a cookie step looks up, was not found.
BannerAbsent == last.step \in CookieSteps /\ 1 \in last.absent

\* The step that ran last is recorded with value v.
Recorded(v) ==
    /\ last.step \in 1..NumSteps
    /\ Steps[last.step] \in DOMAIN results
    /\ results[Steps[last.step]] = v

\* C12 (as stated): when the banner of a cookie step is not found, no
\* click is attempted and the step is recorded True.  Step 2 breaks it:
\* the wait for the banner raises and the sequencer records False.
C12_Original_AbsentBannerPasses ==
    BannerAbsent => ~last.clickAttempted /\ Recorded(TRUE)

\* The names of the steps before the i-th.
StepsBefore(i) == {Steps[j] : j \in 1..(i - 1)}

\* C13: when the session cannot be acquired during construction, the
\* failure leaves the constructor and main (no handler of main sees it) and
\* no step has run; main is left by an exception only from construction;
\* once the session exists, and unless the run is interrupted, every step
\* run so far is recorded whatever it answered, and main ends only after
\* all 12 steps.
C13_OnlySetupFailureAborts ==
    /\ setup = "failed" =>
          /\ mpc = "raised" /\ mexc = "WebDriverException"
          /\ results = << >> /\ idx = 1 /\ last = NoStep /\ rpc = "idle"
    /\ mpc = "raised" => setup \in {"failed", "interrupted"}
    /\ (setup = "ok" /\ interruptedStep = 0) =>
          /\ mpc \in {"scenario", "done"}
          /\ DOMAIN results = StepsBefore(idx)
          /\ mpc = "done" => idx = NumSteps + 1 /\ DOMAIN results = StepNames

\* C13 witness: construction has failed and the failure has left main.
C13_Witness == setup = "failed" /\ mpc = "raised" /\ mexc = "WebDriverException"

\* C14 (as stated): a KeyboardInterrupt during construction or during a
\* step is caught in main and followed by one call of cleanup.  An
\* interruption during construction breaks it: the constructor is called
\* before main's try.
C14_Original_InterruptCaughtThenCleanup ==
    (setup = "interrupted" \/ interruptedStep # 0) =>
        mpc = "done" /\ mexc = "none" /\ cleanups = 1

\* C19 (as stated): when step 12 has closed the active window,
\* original_window was recorded, is another window than the closed one and
\* is still open, and the session is on it.  It breaks when the careers
\* page opened in the tab the scenario was on, and when step 10 ended
\* before it recorded original_window.
C19_Original_CloseLeavesOriginalWindow ==
    (last.step = 12 /\ last.closedWindow # "none") =>
        /\ original_window # "None"
        /\ original_window # last.closedWindow
        /\ original_window \in Range(windows)
        /\ active = original_window

\* C20 (as stated): a step one of whose clicks through _safe_click reported
\* failure is not recorded True.  step_8_click_automotive_furniture breaks
\* it: it drops the value of _safe_click.
C20_Original_FailedClickFailsStep ==
    (last.step # 0 /\ last.clickFailed) => Recorded(FALSE)

\* C21: a step one of whose checks through assert_condition failed is
\* recorded False, whether the step caught the AssertionError itself or
\* let it reach the sequencer.
C21_FailedAssertionFailsStep ==
    (last.step # 0 /\ last.assertFailed) => Recorded(FALSE)

\* C21 witness: the assertion of step 4 failed, the AssertionError reached
\* the sequencer, and the step is recorded False.
C21_Witness ==
    /\ last.step = 4 /\ last.assertFailed
    /\ last.ret = "raise" /\ last.exc = "AssertionError"
    /\ Recorded(FALSE)

\* An assertion failed in a step that catches the AssertionError itself.
C21_WitnessCaughtInStep ==
    /\ last.step \in {1, 3, 12} /\ last.assertFailed
    /\ last.ret = "False" /\ Recorded(FALSE)

====
